---- MODULE Spec2Model ----
(***************************************************************************)
(* x62-fancontrol: the EC handshake over ports 0x68/0x6C, the one-shot     *)
(* device initialisation, and the hysteresis fan manager, as a state       *)
(* machine.  Every port access is one step; what the EC answers to a read  *)
(* is chosen by the environment.                                           *)
(***************************************************************************)
EXTENDS Integers, Sequences, FiniteSets, TLC

VARIABLES
  argv,        \* main's argv[1..], the program name left out (argc = Len(argv) + 1)
  devices,     \* pacc->devices, the list pci_scan_bus built
  pc,          \* the statement the process is at
  stack,       \* return addresses of the calls in progress, innermost first
  val,         \* set_0x6C's parameter
  counter,     \* the wait functions' local counter
  flag,        \* the wait functions' local set / unset
  fan_speed,   \* set_fan_speed's parameter
  num_levels,  \* fan_manager's parameter
  levels,      \* fan_manager's parameter, levels[0] at position 1
  level,       \* fan_manager's local
  temp,        \* the local temp of main and of fan_manager's loop body
  exit_code,   \* the status given to exit(), Running before
  failure,     \* history: the fatal condition that was detected
  samples,     \* history: reads of port 0x6C made by the wait in progress
  log,         \* history: the accesses to the PCI device and the ports, oldest first
  mark,        \* history: Len(log) when fan_manager was entered
  prev_level,  \* history: level when the current tick began
  accessed,    \* history: the indices of levels[] the current tick has read
  last_sent,   \* history: the data byte of the previous tick's fan command
  fed          \* history: how many ticks have followed Script, Off once one did not

vars == <<argv, devices, pc, stack, val, counter, flag, fan_speed, num_levels,
          levels, level, temp, exit_code, failure, samples, log, mark,
          prev_level, accessed, last_sent, fed>>

Running == -1   \* exit_code while the process has not called exit()
NoTemp == -1    \* temp before read_temperature's result is assigned to it
NoSpeed == -1   \* last_sent before any tick has sent a fan command
Off == -1       \* fed once the samples have left Script

\* ------------------------------------------------------------------ bounds

MaxLevels == 3       \* ladders of 1..MaxLevels rungs
MaxThreshold == 1    \* their enter / leave values are 0, 2, .., 2 * MaxThreshold
MaxDevices == 2      \* PCI device lists of 0..MaxDevices devices

\* ------------------------------------------------------- the level ladder

TempLevel(e, l, f) == [enter |-> e, leave |-> l, fan_speed |-> f]

default_levels ==
  << TempLevel(40, 0, 100),
     TempLevel(55, 40, 99),
     TempLevel(65, 45, 60),
     TempLevel(70, 55, 20),
     TempLevel(85, 60, 1) >>

num_default_levels == 5

\* levels[i] as C reads it.  An index outside the array reads whatever lies
\* there: g, which the caller picks freely.
At(lv, i, g) == IF i + 1 \in DOMAIN lv THEN lv[i + 1] ELSE g

\* A variant that also leaves the level at its leave temperature.
GoesDown_orEqual(lvl, lv, t, g) == t <= At(lv, lvl, g).leave /\ lvl > 0

\* A variant that compares with the leave of the level below.
GoesDown_leaveBelow(lvl, lv, t, g) == t < At(lv, lvl - 1, g).leave /\ lvl > 0

\* line 198: temp < levels[level].leave && level > 0
GoesDown(lvl, lv, t, g) == t < At(lv, lvl, g).leave /\ lvl > 0

\* A variant that climbs at or above the current level's own enter.
GoesUp_ownEnter(lvl, n, lv, t, g) == lvl < n - 1 /\ t >= At(lv, lvl, g).enter

\* A variant that climbs already at the next level's enter temperature.
GoesUp_orEqual(lvl, n, lv, t, g) == lvl < n - 1 /\ t >= At(lv, lvl + 1, g).enter

\* A variant without the test for the top level.
GoesUp_unguarded(lvl, n, lv, t, g) == t > At(lv, lvl + 1, g).enter

\* line 202: level < num_levels-1 && temp > levels[level+1].enter
GoesUp(lvl, n, lv, t, g) == lvl < n - 1 /\ t > At(lv, lvl + 1, g).enter

\* A variant that goes straight to the bottom or to the top.
NewLevel_jump(lvl, n, lv, t, g) ==
  IF GoesDown(lvl, lv, t, g) THEN 0
  ELSE IF GoesUp(lvl, n, lv, t, g) THEN n - 1
  ELSE lvl

\* A variant that tests the way up first.
NewLevel_upFirst(lvl, n, lv, t, g) ==
  IF GoesUp(lvl, n, lv, t, g) THEN lvl + 1
  ELSE IF GoesDown(lvl, lv, t, g) THEN lvl - 1
  ELSE lvl

\* lines 198-214: the level after the if / else if / else.
NewLevel(lvl, n, lv, t, g) ==
  IF GoesDown(lvl, lv, t, g) THEN lvl - 1
  ELSE IF GoesUp(lvl, n, lv, t, g) THEN lvl + 1
  ELSE lvl

\* lines 198-217: the indices at which levels[] is read in one tick, the
\* && of line 202 reading levels[level+1] only when its left side holds.
Reads(lvl, n, lv, t, g) ==
  {lvl, NewLevel(lvl, n, lv, t, g)}
    \cup (IF ~GoesDown(lvl, lv, t, g) /\ lvl < n - 1 THEN {lvl + 1} ELSE {})

\* ------------------------------------------------------ process termination

\* lines 11-16: vdie_status prints the message and exits with status.
vdie_status(status) == pc' = "exited" /\ exit_code' = status

\* A variant that forgets its status.
die_status_asDie(status) == vdie_status(1)

\* lines 18-22
die_status(status) == vdie_status(status)

\* lines 24-28
die == vdie_status(1)

\* -------------------------------------------------------- calls and events

Call(target, ret) == pc' = target /\ stack' = <<ret>> \o stack

Return == pc' = Head(stack) /\ stack' = Tail(stack)

PciWrite(offset, value) == <<"pci_write_long", offset, value>>
IoPerm(from, num) == <<"ioperm", from, num>>
Outb(value, port) == <<"outb", port, value>>
Inb(value, port) == <<"inb", port, value>>
\* A read of port 0x6C that showed the awaited state: bit `mask` reading `bit`.
Ready(mask, bit) == <<"ready", mask, bit>>

\* Port numbers and command bytes, in decimal.
PortIndex == 78      \* 0x4E
PortValue == 79      \* 0x4F
PortData == 104      \* 0x68
PortStatus == 108    \* 0x6C
CmdUnknown == 51     \* 0x33
CmdReadTemp == 68    \* 0x44
CmdSetFan == 85      \* 0x55

\* ------------------------------------------------------------ environment

\* What a read of the status port 0x6C can return: bits 0 and 1, each way.
StatusSet == 0..3

\* s & mask, as 0 or 1, for the masks 1 and 2.
BitOf(s, mask) == (s \div mask) % 2

\* lines 85 and 98: set = (inb(0x6C) & 2) == 2 and unset = !(inb(0x6C) & 1);
\* the value s read does not show bit `mask` in the awaited state `bit`.
Wrong(s, mask, bit) == BitOf(s, mask) # bit

\* What a read of the data port 0x68 can return after a 0x44 command: the
\* thresholds of the default ladder, values between them, and both ends.
DataSet == {0, 30, 39, 40, 42, 44, 50, 55, 60, 72, 255}

\* The PCI devices the bus scan can list: the EC's LPC bridge and another one.
Target == [vendor_id |-> 32902, device_id |-> 40131]     \* 8086:9cc3
Other == [vendor_id |-> 32902, device_id |-> 5549]

RECURSIVE SeqsUpTo(_, _)
SeqsUpTo(S, n) ==
  IF n = 0 THEN {<<>>}
  ELSE LET shorter == SeqsUpTo(S, n - 1)
       IN  shorter \cup {Append(q, x) : q \in shorter, x \in S}

DeviceLists == SeqsUpTo({Target, Other}, MaxDevices)

\* The strings given as <fan-speed>, as sequences of characters.
FanSpeedArgs ==
  { <<"0">>, <<"6", "0">>, <<"2", "5", "5">>, <<"2", "5", "6">>,
    <<"-", "1">>, <<"+", "7">>, <<"9", "x">>, <<"x">>, <<>> }

CommandLines ==
  { <<"temp">>, <<"manager">>, <<"set-fan-speed">>, <<"status">>, <<>> }
    \cup { <<"set-fan-speed", a>> : a \in FanSpeedArgs }
    \cup { <<"temp", <<"0">> >> }

\* ------------------------------------------------------------------ strtol

Digits == <<"0", "1", "2", "3", "4", "5", "6", "7", "8", "9">>

IsDigit(c) == \E d \in 1..10 : Digits[d] = c

DigitValue(c) == (CHOOSE d \in 1..10 : Digits[d] = c) - 1

\* The value of the digits s[i..] up to the first character that is none,
\* acc being the value of the digits before s[i].
RECURSIVE DigitsFrom(_, _, _)
DigitsFrom(s, i, acc) ==
  IF i > Len(s) \/ ~IsDigit(s[i]) THEN acc
  ELSE DigitsFrom(s, i + 1, 10 * acc + DigitValue(s[i]))

\* line 251: strtol(argv[2], NULL, 10) on a string without leading blanks and
\* short enough not to overflow a long: an optional sign, then the digits;
\* 0 when there is no digit.
strtol(s) ==
  IF s # <<>> /\ s[1] = "-" THEN 0 - DigitsFrom(s, 2, 0)
  ELSE IF s # <<>> /\ s[1] = "+" THEN DigitsFrom(s, 2, 0)
  ELSE DigitsFrom(s, 1, 0)

\* -------------------------------------------------------------------- Init

Idle ==
  /\ stack = <<>>
  /\ val = 0
  /\ counter = 0
  /\ flag = FALSE
  /\ fan_speed = 0
  /\ temp = NoTemp
  /\ exit_code = Running
  /\ failure = "none"
  /\ samples = 0
  /\ log = <<>>
  /\ mark = 0
  /\ prev_level = 0
  /\ accessed = {}
  /\ last_sent = NoSpeed

\* The process at the entry of main, with any command line and any PCI bus.
Init ==
  /\ argv \in CommandLines
  /\ devices \in DeviceLists
  /\ pc = "main"
  /\ num_levels = 0
  /\ levels = <<>>
  /\ level = 0
  /\ fed = Off
  /\ Idle

\* -------------------------------------------------------------------- main

argc == Len(argv) + 1

IsTemp == argc = 2 /\ argv[1] = "temp"
IsSetFanSpeed == argc = 3 /\ argv[1] = "set-fan-speed"
IsManager == argc = 2 /\ argv[1] = "manager"

\* lines 244-245
MainTemp ==
  /\ pc = "main" /\ IsTemp
  /\ Call("initialize", "main_temp")
  /\ UNCHANGED <<argv, devices, val, counter, flag, fan_speed, num_levels, levels,
                 level, temp, exit_code, failure, samples, log, mark, prev_level,
                 accessed, last_sent, fed>>

\* lines 249-250
MainSetFanSpeed ==
  /\ pc = "main" /\ ~IsTemp /\ IsSetFanSpeed
  /\ Call("initialize", "main_set_fan_speed")
  /\ UNCHANGED <<argv, devices, val, counter, flag, fan_speed, num_levels, levels,
                 level, temp, exit_code, failure, samples, log, mark, prev_level,
                 accessed, last_sent, fed>>

\* lines 260-261
MainManager ==
  /\ pc = "main" /\ ~IsTemp /\ ~IsSetFanSpeed /\ IsManager
  /\ Call("initialize", "main_manager")
  /\ UNCHANGED <<argv, devices, val, counter, flag, fan_speed, num_levels, levels,
                 level, temp, exit_code, failure, samples, log, mark, prev_level,
                 accessed, last_sent, fed>>

\* lines 264-266 and 225-241: usage prints the help and exits with 0.
MainUsage ==
  /\ pc = "main" /\ ~IsTemp /\ ~IsSetFanSpeed /\ ~IsManager
  /\ pc' = "exited" /\ exit_code' = 0
  /\ UNCHANGED <<argv, devices, stack, val, counter, flag, fan_speed, num_levels,
                 levels, level, temp, failure, samples, log, mark, prev_level,
                 accessed, last_sent, fed>>

\* line 246: temp = read_temperature()
MainReadTemperature ==
  /\ pc = "main_temp"
  /\ Call("read_temperature", "main_end")
  /\ UNCHANGED <<argv, devices, val, counter, flag, fan_speed, num_levels, levels,
                 level, temp, exit_code, failure, samples, log, mark, prev_level,
                 accessed, last_sent, fed>>

\* lines 251-253: the argument is below 0 or above 255.
MainInvalidFanSpeed ==
  /\ pc = "main_set_fan_speed"
  /\ strtol(argv[2]) < 0 \/ strtol(argv[2]) > 255
  /\ die
  /\ failure' = "InvalidArgument"
  /\ UNCHANGED <<argv, devices, stack, val, counter, flag, fan_speed, num_levels,
                 levels, level, temp, samples, log, mark, prev_level, accessed,
                 last_sent, fed>>

\* lines 254-257
MainCallSetFanSpeed ==
  /\ pc = "main_set_fan_speed"
  /\ ~(strtol(argv[2]) < 0 \/ strtol(argv[2]) > 255)
  /\ fan_speed' = strtol(argv[2]) % 256
  /\ Call("set_fan_speed", "main_end")
  /\ UNCHANGED <<argv, devices, val, counter, flag, num_levels, levels, level,
                 temp, exit_code, failure, samples, log, mark, prev_level, accessed,
                 last_sent, fed>>

\* line 262: fan_manager(1 * 1000 * 1000, num_default_levels, default_levels),
\* and line 194.
MainCallFanManager ==
  /\ pc = "main_manager"
  /\ num_levels' = num_default_levels
  /\ levels' = default_levels
  /\ level' = 0
  /\ pc' = "fan_manager"
  /\ mark' = Len(log)
  /\ fed' = 0
  /\ UNCHANGED <<argv, devices, stack, val, counter, flag, fan_speed, temp,
                 exit_code, failure, samples, log, prev_level, accessed, last_sent>>

\* line 267: main runs off its end, which returns 0 (C99 and later).
MainEnd ==
  /\ pc = "main_end"
  /\ pc' = "exited" /\ exit_code' = 0
  /\ UNCHANGED <<argv, devices, stack, val, counter, flag, fan_speed, num_levels,
                 levels, level, temp, failure, samples, log, mark, prev_level,
                 accessed, last_sent, fed>>

\* -------------------------------------------------------------- initialize

Multiple == -1

\* line 62
IsTarget(d) == d.vendor_id = 32902 /\ d.device_id = 40131

\* A variant that keeps the last match and never complains about a second.
RECURSIVE Scan_lastMatch(_, _, _)
Scan_lastMatch(devs, i, device) ==
  IF i > Len(devs) THEN device
  ELSE Scan_lastMatch(devs, i + 1, IF IsTarget(devs[i]) THEN i ELSE device)

\* lines 58-70: the walk over pacc->devices from its i-th device on, device
\* being the position of the match so far (0: NULL).  Multiple when a second
\* match is met.
RECURSIVE Scan(_, _, _)
Scan(devs, i, device) ==
  IF i > Len(devs) THEN device
  ELSE IF IsTarget(devs[i])
       THEN (IF device # 0 THEN Multiple ELSE Scan(devs, i + 1, i))
       ELSE Scan(devs, i + 1, device)

\* lines 47-55: libpci reports an error of its own through pacc->error, which
\* is die.
InitializePciError ==
  /\ pc = "initialize"
  /\ die
  /\ failure' = "PciError"
  /\ UNCHANGED <<argv, devices, stack, val, counter, flag, fan_speed, num_levels,
                 levels, level, temp, samples, log, mark, prev_level, accessed,
                 last_sent, fed>>

\* lines 64-66
InitializePciMultiple ==
  /\ pc = "initialize"
  /\ Scan(devices, 1, 0) = Multiple
  /\ die
  /\ failure' = "AmbiguousDevice"
  /\ UNCHANGED <<argv, devices, stack, val, counter, flag, fan_speed, num_levels,
                 levels, level, temp, samples, log, mark, prev_level, accessed,
                 last_sent, fed>>

\* lines 71-73
InitializePciNone ==
  /\ pc = "initialize"
  /\ Scan(devices, 1, 0) = 0
  /\ die
  /\ failure' = "DeviceNotFound"
  /\ UNCHANGED <<argv, devices, stack, val, counter, flag, fan_speed, num_levels,
                 levels, level, temp, samples, log, mark, prev_level, accessed,
                 last_sent, fed>>

\* lines 75-80: the write to the one matching device, and pci_cleanup, which
\* frees the device list.
InitializePci ==
  /\ pc = "initialize"
  /\ Scan(devices, 1, 0) \in 1..Len(devices)
  /\ log' = Append(log, PciWrite(132, 262249))      \* 0x84, 0x40069
  /\ devices' = <<>>
  /\ pc' = "get_perm_4E"
  /\ UNCHANGED <<argv, stack, val, counter, flag, fan_speed, num_levels, levels,
                 level, temp, exit_code, failure, samples, mark, prev_level,
                 accessed, last_sent, fed>>

\* lines 33-38, ioperm returning an error.
get_perm_fails(here) ==
  /\ pc = here
  /\ die
  /\ failure' = "PermissionDenied"
  /\ UNCHANGED <<argv, devices, stack, val, counter, flag, fan_speed, num_levels,
                 levels, level, temp, samples, log, mark, prev_level, accessed,
                 last_sent, fed>>

\* lines 33-38, ioperm returning 0.
get_perm(here, from, num, next) ==
  /\ pc = here
  /\ log' = Append(log, IoPerm(from, num))
  /\ pc' = next
  /\ UNCHANGED <<argv, devices, stack, val, counter, flag, fan_speed, num_levels,
                 levels, level, temp, exit_code, failure, samples, mark, prev_level,
                 accessed, last_sent, fed>>

\* lines 42-44
GetPermsFail ==
  \E here \in {"get_perm_4E", "get_perm_68", "get_perm_6C"} : get_perm_fails(here)

GetPerm4E == get_perm("get_perm_4E", PortIndex, 2, "get_perm_68")
GetPerm68 == get_perm("get_perm_68", PortData, 1, "get_perm_6C")
GetPerm6C == get_perm("get_perm_6C", PortStatus, 1, "init_ports")

\* A variant that sends the last index / data pair first.
InitPortWrites_lastFirst ==
  << Outb(48, PortIndex), Outb(1, PortValue),
     Outb(7, PortIndex), Outb(18, PortValue),
     Outb(48, PortIndex), Outb(0, PortValue),
     Outb(97, PortIndex), Outb(104, PortValue),
     Outb(99, PortIndex), Outb(108, PortValue) >>

\* lines 141-150
InitPortWrites ==
  << Outb(7, PortIndex), Outb(18, PortValue),       \* 0x07, 0x12
     Outb(48, PortIndex), Outb(0, PortValue),       \* 0x30, 0x00
     Outb(97, PortIndex), Outb(104, PortValue),     \* 0x61, 0x68
     Outb(99, PortIndex), Outb(108, PortValue),     \* 0x63, 0x6C
     Outb(48, PortIndex), Outb(1, PortValue) >>     \* 0x30, 0x01

InitPorts ==
  /\ pc = "init_ports"
  /\ log' = log \o InitPortWrites
  /\ pc' = "unknown_communication"
  /\ UNCHANGED <<argv, devices, stack, val, counter, flag, fan_speed, num_levels,
                 levels, level, temp, exit_code, failure, samples, mark, prev_level,
                 accessed, last_sent, fed>>

\* line 117: set_0x6C(0x33)
UnknownCommunication ==
  /\ pc = "unknown_communication"
  /\ val' = CmdUnknown
  /\ Call("set_0x6C", "unknown_communication_outb")
  /\ UNCHANGED <<argv, devices, counter, flag, fan_speed, num_levels, levels, level,
                 temp, exit_code, failure, samples, log, mark, prev_level, accessed,
                 last_sent, fed>>

\* line 118: outb(0x06, 0x68); unknown_communication and initialize return.
UnknownCommunicationOutb ==
  /\ pc = "unknown_communication_outb"
  /\ log' = Append(log, Outb(6, PortData))
  /\ Return
  /\ UNCHANGED <<argv, devices, val, counter, flag, fan_speed, num_levels, levels,
                 level, temp, exit_code, failure, samples, mark, prev_level,
                 accessed, last_sent, fed>>

\* ------------------------------------------------------- the EC handshake

WaitLimit == 1000

\* A variant that stops one turn earlier.
KeepWaiting_strict(c, f) == c < WaitLimit /\ f

\* A variant that looks at the counter only.
KeepWaiting_toTheLimit(c, f) == c <= WaitLimit

\* lines 86 and 99: the loop condition, counter <= 1000 && set.
KeepWaiting(c, f) == c <= WaitLimit /\ f

\* lines 84-85 and 97-98: counter = 0 and the first read of port 0x6C, which
\* returns s.
WaitEnter(here, loop, mask, bit) ==
  /\ pc = here
  /\ \E s \in StatusSet :
       /\ flag' = Wrong(s, mask, bit)
       /\ log' = IF Wrong(s, mask, bit) THEN log ELSE Append(log, Ready(mask, bit))
  /\ counter' = 0
  /\ samples' = 1
  /\ pc' = loop
  /\ UNCHANGED <<argv, devices, stack, val, fan_speed, num_levels, levels, level,
                 temp, exit_code, failure, mark, prev_level, accessed, last_sent, fed>>

\* lines 86-90 and 99-103: one turn of the loop.
WaitAgain(loop, mask, bit) ==
  /\ pc = loop
  /\ KeepWaiting(counter, flag)
  /\ counter' = counter + 1
  /\ \E s \in StatusSet :
       /\ flag' = Wrong(s, mask, bit)
       /\ log' = IF Wrong(s, mask, bit) THEN log ELSE Append(log, Ready(mask, bit))
  /\ samples' = samples + 1
  /\ UNCHANGED <<argv, devices, pc, stack, val, fan_speed, num_levels, levels, level,
                 temp, exit_code, failure, mark, prev_level, accessed, last_sent, fed>>

\* lines 91-93 and 104-106, the loop left with the bit still wrong.
WaitTimeout(loop) ==
  /\ pc = loop
  /\ ~KeepWaiting(counter, flag)
  /\ flag
  /\ die_status(2)
  /\ failure' = "HandshakeTimeout"
  /\ UNCHANGED <<argv, devices, stack, val, counter, flag, fan_speed, num_levels,
                 levels, level, temp, samples, log, mark, prev_level, accessed,
                 last_sent, fed>>

\* lines 91-94 and 104-107, the loop left with the bit as awaited: the
\* function returns and its locals are gone.
WaitReturn(loop) ==
  /\ pc = loop
  /\ ~KeepWaiting(counter, flag)
  /\ ~flag
  /\ Return
  /\ counter' = 0
  /\ flag' = FALSE
  /\ samples' = 0
  /\ UNCHANGED <<argv, devices, val, fan_speed, num_levels, levels, level, temp,
                 exit_code, failure, log, mark, prev_level, accessed, last_sent, fed>>

\* lines 83-94
Wait2Enter ==
  WaitEnter("wait_0x6C_second_bit_unset", "wait_0x6C_second_bit_unset_loop", 2, 0)
Wait2Again == WaitAgain("wait_0x6C_second_bit_unset_loop", 2, 0)
Wait2Timeout == WaitTimeout("wait_0x6C_second_bit_unset_loop")
Wait2Return == WaitReturn("wait_0x6C_second_bit_unset_loop")

\* lines 96-107
Wait1Enter ==
  WaitEnter("wait_0x6C_first_bit_set", "wait_0x6C_first_bit_set_loop", 1, 1)
Wait1Again == WaitAgain("wait_0x6C_first_bit_set_loop", 1, 1)
Wait1Timeout == WaitTimeout("wait_0x6C_first_bit_set_loop")
Wait1Return == WaitReturn("wait_0x6C_first_bit_set_loop")

\* line 110
Set0x6C ==
  /\ pc = "set_0x6C"
  /\ Call("wait_0x6C_second_bit_unset", "set_0x6C_outb")
  /\ UNCHANGED <<argv, devices, val, counter, flag, fan_speed, num_levels, levels,
                 level, temp, exit_code, failure, samples, log, mark, prev_level,
                 accessed, last_sent, fed>>

\* A variant that does not wait after the write.
Set0x6COutb_noWait ==
  /\ pc = "set_0x6C_outb"
  /\ log' = Append(log, Outb(val, PortStatus))
  /\ pc' = "set_0x6C_return"
  /\ UNCHANGED <<argv, devices, stack, val, counter, flag, fan_speed, num_levels,
                 levels, level, temp, exit_code, failure, samples, mark, prev_level,
                 accessed, last_sent, fed>>

\* lines 111-112
Set0x6COutb ==
  /\ pc = "set_0x6C_outb"
  /\ log' = Append(log, Outb(val, PortStatus))
  /\ Call("wait_0x6C_second_bit_unset", "set_0x6C_return")
  /\ UNCHANGED <<argv, devices, val, counter, flag, fan_speed, num_levels, levels,
                 level, temp, exit_code, failure, samples, mark, prev_level,
                 accessed, last_sent, fed>>

\* line 113
Set0x6CReturn ==
  /\ pc = "set_0x6C_return"
  /\ Return
  /\ UNCHANGED <<argv, devices, val, counter, flag, fan_speed, num_levels, levels,
                 level, temp, exit_code, failure, samples, log, mark, prev_level,
                 accessed, last_sent, fed>>

\* line 122
ReadTemperature ==
  /\ pc = "read_temperature"
  /\ val' = CmdReadTemp
  /\ Call("set_0x6C", "read_temperature_outb")
  /\ UNCHANGED <<argv, devices, counter, flag, fan_speed, num_levels, levels, level,
                 temp, exit_code, failure, samples, log, mark, prev_level, accessed,
                 last_sent, fed>>

\* A variant that reads the data port without waiting for bit 0.
ReadTemperatureOutb_noWait ==
  /\ pc = "read_temperature_outb"
  /\ log' = Append(log, Outb(0, PortData))
  /\ pc' = "read_temperature_inb"
  /\ UNCHANGED <<argv, devices, stack, val, counter, flag, fan_speed, num_levels,
                 levels, level, temp, exit_code, failure, samples, mark, prev_level,
                 accessed, last_sent, fed>>

\* lines 123-124
ReadTemperatureOutb ==
  /\ pc = "read_temperature_outb"
  /\ log' = Append(log, Outb(0, PortData))
  /\ Call("wait_0x6C_first_bit_set", "read_temperature_inb")
  /\ UNCHANGED <<argv, devices, val, counter, flag, fan_speed, num_levels, levels,
                 level, temp, exit_code, failure, samples, mark, prev_level,
                 accessed, last_sent, fed>>

\* line 125, and the caller's assignment of the result to its temp (lines
\* 196 and 246).
ReadTemperatureInb ==
  /\ pc = "read_temperature_inb"
  /\ \E v \in DataSet :
       /\ temp' = v
       /\ log' = Append(log, Inb(v, PortData))
  /\ Return
  /\ UNCHANGED <<argv, devices, val, counter, flag, fan_speed, num_levels, levels,
                 level, exit_code, failure, samples, mark, prev_level, accessed,
                 last_sent, fed>>

\* line 129
SetFanSpeed ==
  /\ pc = "set_fan_speed"
  /\ val' = CmdSetFan
  /\ Call("set_0x6C", "set_fan_speed_outb")
  /\ UNCHANGED <<argv, devices, counter, flag, fan_speed, num_levels, levels, level,
                 temp, exit_code, failure, samples, log, mark, prev_level, accessed,
                 last_sent, fed>>

\* A variant that returns without sending the data byte.
SetFanSpeedOutb_dropped ==
  /\ pc = "set_fan_speed_outb"
  /\ Return
  /\ UNCHANGED <<argv, devices, val, counter, flag, fan_speed, num_levels, levels,
                 level, temp, exit_code, failure, samples, log, mark, prev_level,
                 accessed, last_sent, fed>>

\* lines 130-131
SetFanSpeedOutb ==
  /\ pc = "set_fan_speed_outb"
  /\ log' = Append(log, Outb(fan_speed, PortData))
  /\ Return
  /\ UNCHANGED <<argv, devices, val, counter, flag, fan_speed, num_levels, levels,
                 level, temp, exit_code, failure, samples, mark, prev_level,
                 accessed, last_sent, fed>>

\* ------------------------------------------------------------- fan_manager

\* The samples of the worked example.
Script == <<30, 42, 60, 72, 50, 44, 39>>

\* What an out-of-range read of levels[] can find.
Garbage == {TempLevel(0, 0, 0), TempLevel(255, 255, 255)}

\* The history of a tick, started afresh where the loop body begins: the
\* accesses of the tick before are dropped from the log.
TickBegins ==
  /\ prev_level' = level
  /\ accessed' = {}
  /\ log' = SubSeq(log, 1, mark)

\* line 195 and the call of line 196; temp is a new variable in each turn
\* of the loop.
FanManagerRead ==
  /\ pc \in {"fan_manager", "fan_manager_loop"}
  /\ temp' = NoTemp
  /\ TickBegins
  /\ Call("read_temperature", "fan_manager_decide")
  /\ UNCHANGED <<argv, devices, val, counter, flag, fan_speed, num_levels, levels,
                 level, exit_code, failure, samples, mark, last_sent, fed>>

\* lines 197-214
FanManagerDecide ==
  /\ pc = "fan_manager_decide"
  /\ \E g \in Garbage :
       /\ level' = NewLevel(level, num_levels, levels, temp, g)
       /\ accessed' = accessed \cup Reads(level, num_levels, levels, temp, g)
  /\ fed' = IF fed # Off /\ fed < Len(Script) /\ temp = Script[fed + 1]
             THEN fed + 1 ELSE Off
  /\ pc' = "fan_manager_set"
  /\ UNCHANGED <<argv, devices, stack, val, counter, flag, fan_speed, num_levels,
                 levels, temp, exit_code, failure, samples, log, mark, prev_level,
                 last_sent>>

\* A variant that sends the fan speed only when the level has changed.
FanManagerSet_onChange ==
  /\ pc = "fan_manager_set"
  /\ accessed' = accessed \cup {level}
  /\ \E g \in Garbage : fan_speed' = At(levels, level, g).fan_speed
  /\ IF level # prev_level \/ last_sent = NoSpeed
     THEN Call("set_fan_speed", "fan_manager_sleep")
     ELSE pc' = "fan_manager_sleep" /\ stack' = stack
  /\ UNCHANGED <<argv, devices, val, counter, flag, num_levels, levels, level, temp,
                 exit_code, failure, samples, log, mark, prev_level, last_sent, fed>>

\* line 217: set_fan_speed(levels[level].fan_speed)
FanManagerSet ==
  /\ pc = "fan_manager_set"
  /\ \E g \in Garbage : fan_speed' = At(levels, level, g).fan_speed
  /\ accessed' = accessed \cup {level}
  /\ Call("set_fan_speed", "fan_manager_sleep")
  /\ UNCHANGED <<argv, devices, val, counter, flag, num_levels, levels, level, temp,
                 exit_code, failure, samples, log, mark, prev_level, last_sent, fed>>

\* A variant whose loop ends after one turn: fan_manager returns to main.
FanManagerSleep_once ==
  /\ pc = "fan_manager_sleep"
  /\ last_sent' = fan_speed
  /\ pc' = "main_end"
  /\ UNCHANGED <<argv, devices, stack, val, counter, flag, fan_speed, num_levels,
                 levels, level, temp, exit_code, failure, samples, log, mark,
                 prev_level, accessed, fed>>

\* line 218: usleep(poll_interval), and back to the head of the loop.
FanManagerSleep ==
  /\ pc = "fan_manager_sleep"
  /\ last_sent' = fan_speed
  /\ pc' = "fan_manager_loop"
  /\ UNCHANGED <<argv, devices, stack, val, counter, flag, fan_speed, num_levels,
                 levels, level, temp, exit_code, failure, samples, log, mark,
                 prev_level, accessed, fed>>

\* ------------------------------------------------------------ the program

Next ==
  \/ MainTemp \/ MainSetFanSpeed \/ MainManager \/ MainUsage
  \/ MainReadTemperature \/ MainInvalidFanSpeed \/ MainCallSetFanSpeed
  \/ MainCallFanManager \/ MainEnd
  \/ InitializePciError \/ InitializePciMultiple \/ InitializePciNone
  \/ InitializePci
  \/ GetPermsFail \/ GetPerm4E \/ GetPerm68 \/ GetPerm6C
  \/ InitPorts \/ UnknownCommunication \/ UnknownCommunicationOutb
  \/ Wait2Enter \/ Wait2Again \/ Wait2Timeout \/ Wait2Return
  \/ Wait1Enter \/ Wait1Again \/ Wait1Timeout \/ Wait1Return
  \/ Set0x6C \/ Set0x6COutb \/ Set0x6CReturn
  \/ ReadTemperature \/ ReadTemperatureOutb \/ ReadTemperatureInb
  \/ SetFanSpeed \/ SetFanSpeedOutb
  \/ FanManagerRead \/ FanManagerDecide \/ FanManagerSet \/ FanManagerSleep

Spec == Init /\ [][Next]_vars

\* The process is the only thread and never waits for anything but the end
\* of a usleep: as long as it has not exited, it takes its next step.
FairSpec == Spec /\ WF_vars(Next)

\* ------------------------------------- fan_manager on a ladder of any shape

\* The thresholds of the ladders tried: even, to leave a temperature
\* between any two of them.
Thresholds == {2 * k : k \in 0..MaxThreshold}

\* The ladders of 1..MaxLevels rungs with these thresholds, in any order,
\* the rungs told apart by their fan speeds.
Ladders ==
  UNION { { [i \in 1..n |-> TempLevel(e[i], l[i], 100 - i)] :
              e \in [1..n -> Thresholds], l \in [1..n -> Thresholds] } :
          n \in 1..MaxLevels }

\* The temperatures tried on them: the thresholds, one above each, and the
\* largest byte.
LadderTemps == 0..(2 * MaxThreshold + 1) \cup {255}

\* fan_manager entered with any ladder.
InitLadder ==
  /\ argv = <<"manager">>
  /\ devices = <<>>
  /\ pc = "fan_manager"
  /\ levels \in Ladders
  /\ num_levels = Len(levels)
  /\ level = 0
  /\ fed = Off
  /\ Idle

\* lines 121-126 seen from fan_manager: read_temperature returns a byte.
ReadTemperatureReturns ==
  /\ pc \in {"fan_manager", "fan_manager_loop"}
  /\ temp' \in LadderTemps
  /\ TickBegins
  /\ pc' = "fan_manager_decide"
  /\ UNCHANGED <<argv, devices, stack, val, counter, flag, fan_speed, num_levels,
                 levels, level, exit_code, failure, samples, mark, last_sent, fed>>

\* lines 128-131 seen from fan_manager: set_fan_speed sends its byte and
\* returns.
SetFanSpeedReturns ==
  /\ pc = "set_fan_speed"
  /\ log' = log \o <<Outb(CmdSetFan, PortStatus), Outb(fan_speed, PortData)>>
  /\ Return
  /\ UNCHANGED <<argv, devices, val, counter, flag, fan_speed, num_levels, levels,
                 level, temp, exit_code, failure, samples, mark, prev_level,
                 accessed, last_sent, fed>>

NextLadder ==
  \/ ReadTemperatureReturns
  \/ FanManagerDecide
  \/ FanManagerSet
  \/ SetFanSpeedReturns
  \/ FanManagerSleep

SpecLadder == InitLadder /\ [][NextLadder]_vars

\* ------------------------------------------------ one wait, from any caller

\* One of the two waits has just been called.
InitWait ==
  /\ argv = <<"temp">>
  /\ devices = <<>>
  /\ pc \in {"wait_0x6C_second_bit_unset", "wait_0x6C_first_bit_set"}
  /\ stack = <<"returned">>
  /\ val = 0
  /\ counter = 0
  /\ flag = FALSE
  /\ fan_speed = 0
  /\ num_levels = 0
  /\ levels = <<>>
  /\ level = 0
  /\ temp = NoTemp
  /\ exit_code = Running
  /\ failure = "none"
  /\ samples = 0
  /\ log = <<>>
  /\ mark = 0
  /\ prev_level = 0
  /\ accessed = {}
  /\ last_sent = NoSpeed
  /\ fed = Off

NextWait ==
  \/ Wait2Enter \/ Wait2Again \/ Wait2Timeout \/ Wait2Return
  \/ Wait1Enter \/ Wait1Again \/ Wait1Timeout \/ Wait1Return

\* usleep returns and the process goes on: the wait takes its next step as
\* long as it has one.
SpecWait == InitWait /\ [][NextWait]_vars /\ WF_vars(NextWait)

\* ================================================================ claims

\* The level fan_manager was at when the tick began, and its neighbour above.
Here == levels[prev_level + 1]
Above == levels[prev_level + 2]

\* The decision of the current tick has been taken on the sample temp.
Decided == pc = "fan_manager_set"

\* ---- C1

\* The levels the worked example gives, and the levels fan_manager takes.
Claimed == <<0, 1, 2, 3, 2, 1, 0>>
Followed == <<0, 0, 1, 2, 2, 1, 0>>

\* C1, as stated: on the default ladder, from level 0, the samples 30, 42,
\* 60, 72, 50, 44, 39 leave the level at 0, 1, 2, 3, 2, 1, 0 after the
\* respective ticks.
C1_LevelsAsClaimed == fed \in 1..Len(Script) => level = Claimed[fed]

\* C1, amended: on the default ladder, from level 0, the samples 30, 42, 60,
\* 72, 50, 44, 39 leave the level at 0, 0, 1, 2, 2, 1, 0 after the
\* respective ticks.
C1_LevelsOfScript == fed \in 1..Len(Script) => level = Followed[fed]

C1_ScriptDone ==
  fed = Len(Script) /\ levels = default_levels /\ pc = "fan_manager_sleep"

\* ---- C2

TimedOut == failure = "HandshakeTimeout"

\* C2, as stated: a wait whose status bit never reaches the awaited state
\* reads the status port exactly 1000 times, then times out, and reads no
\* more.
C2_ThousandSamples == TimedOut => samples = 1000

\* C2, amended: a wait whose status bit never reaches the awaited state
\* reads the status port exactly 1002 times (once before the loop and once
\* in each of its 1001 turns), then times out, and reads no more.
C2_SamplesAtTimeout == TimedOut => samples = WaitLimit + 2 /\ pc = "exited"

C2_FirstBitTimedOut ==
  /\ TimedOut
  /\ pc = "exited"
  /\ Head(stack) = "read_temperature_inb"
  /\ samples = WaitLimit + 2

\* ---- C3

\* C3: on any ladder and for any samples, a tick changes the level by at
\* most one.
C3_SingleStep == level - prev_level \in {-1, 0, 1}

C3_OneStepOfSeveral ==
  /\ Decided
  /\ num_levels = 3
  /\ prev_level = 0
  /\ temp > levels[2].enter /\ temp > levels[3].enter
  /\ level = 1

\* ---- C4

\* C4: a sample t with ladder[i].leave <= t <= ladder[i+1].enter (the upper
\* bound only below the top level) leaves the level at i.
C4_BandIsFixedPoint ==
  ( /\ Decided
    /\ Here.leave <= temp
    /\ prev_level < num_levels - 1 => temp <= Above.enter )
  => level = prev_level

C4_OnBothThresholds ==
  /\ Decided
  /\ prev_level > 0 /\ prev_level < num_levels - 1
  /\ temp = Here.leave /\ temp = Above.enter
  /\ level = prev_level

\* ---- C5

\* C5: the level stays in 0..N-1 and every read of levels[] is at an index
\* in 0..N-1.
C5_InRange ==
  /\ level \in 0..(num_levels - 1)
  /\ accessed \subseteq 0..(num_levels - 1)

C5_HotAtTheTop ==
  /\ Decided
  /\ num_levels >= 2
  /\ prev_level = num_levels - 1
  /\ temp > Here.enter
  /\ level = prev_level

\* ---- C6

\* The port reads and writes of the current tick, the status polls left out.
IsPortAccess(e) == e[1] \in {"outb", "inb"}
TickAccesses == SelectSeq(SubSeq(log, mark + 1, Len(log)), IsPortAccess)

\* C6: a tick of the manager is one read_temperature followed by one
\* set_fan_speed of the chosen level's fan speed, sent also when the level
\* has not changed: two ticks in a row at one level send the same byte twice.
C6_EveryTickReasserts ==
  pc = "fan_manager_sleep" =>
    /\ TickAccesses = << Outb(CmdReadTemp, PortStatus), Outb(0, PortData),
                         Inb(temp, PortData),
                         Outb(CmdSetFan, PortStatus),
                         Outb(levels[level + 1].fan_speed, PortData) >>
    /\ last_sent # NoSpeed /\ level = prev_level
         => levels[level + 1].fan_speed = last_sent

C6_SentAgain ==
  /\ pc = "fan_manager_sleep"
  /\ last_sent # NoSpeed
  /\ level = prev_level /\ level > 0
  /\ fan_speed = last_sent

\* ---- C7

\* C7: a handshake timeout exits with 2, and nothing else does; a permission
\* failure, no or several matching devices and an out-of-range argument
\* exit with 1; 0 is the exit code only when no failure was detected.
C7_ExitCodes ==
  /\ TimedOut <=> exit_code = 2
  /\ failure \in {"PermissionDenied", "DeviceNotFound", "AmbiguousDevice",
                   "InvalidArgument"} => exit_code = 1
  /\ exit_code = 0 => failure = "none"
  /\ pc = "exited" <=> exit_code \in {0, 1, 2}

C7_TimeoutInInitializer ==
  /\ exit_code = 2
  /\ IsSetFanSpeed /\ strtol(argv[2]) > 255
  /\ val = CmdUnknown

\* ---- C9

\* Down if i > 0 and t < ladder[i].leave, else up if i < N-1 and
\* t > ladder[i+1].enter, else stay.
Rule(i, lv, t) ==
  IF i > 0 /\ t < lv[i + 1].leave THEN i - 1
  ELSE IF i < Len(lv) - 1 /\ t > lv[i + 2].enter THEN i + 1
  ELSE i

\* C9: the level after a tick is the one the rule gives; where both its
\* conditions hold, the level goes down.
C9_FollowsRule == Decided => level = Rule(prev_level, levels, temp)

C9_DownWins ==
  /\ Decided
  /\ prev_level > 0 /\ prev_level < num_levels - 1
  /\ temp < Here.leave /\ temp > Above.enter
  /\ level = prev_level - 1

\* ---- C10

NoWayDown == ~(prev_level > 0 /\ temp < Here.leave)

\* C10, as stated: below the top level, a sample at or above the current
\* level's enter, with no way down, moves the level up.
C10_UpAtOwnEnter ==
  (Decided /\ prev_level < num_levels - 1 /\ NoWayDown /\ temp >= Here.enter)
  => level = prev_level + 1

\* C10, amended: enter is the temperature above which the level itself is
\* entered from the one below: below the top level and with no way down, the
\* level moves up exactly when the sample is above the next level's enter.
C10_UpAboveNextEnter ==
  (Decided /\ prev_level < num_levels - 1 /\ NoWayDown)
  => (level = prev_level + 1 <=> temp > Above.enter)

C10_UpBelowOwnEnter ==
  /\ Decided
  /\ prev_level < num_levels - 1
  /\ temp < Here.enter /\ temp > Above.enter
  /\ level = prev_level + 1

\* ---- C11

\* C11, as stated: leave is the temperature at or below which the level is
\* left: above the bottom level a sample at or below the current level's
\* leave, equality included, moves the level one down.
C11_DownAtLeave ==
  (Decided /\ prev_level > 0 /\ temp <= Here.leave)
  => level = prev_level - 1

\* C11, amended: leave is the temperature below which the level is left:
\* above the bottom level the level moves one down exactly when the sample
\* is below the current level's leave; a sample equal to it does not.
C11_DownBelowLeave ==
  (Decided /\ prev_level > 0)
  => (level = prev_level - 1 <=> temp < Here.leave)

C11_DownJustBelowLeave ==
  /\ Decided
  /\ prev_level > 0
  /\ temp + 1 = Here.leave
  /\ level = prev_level - 1

\* ---- C12

\* The log without the status samples: the PCI write, the permission
\* requests and the port accesses.
IsStep(e) == e[1] # "ready"
Steps == SelectSeq(log, IsStep)

IsPrefix(a, b) == Len(a) <= Len(b) /\ SubSeq(b, 1, Len(a)) = a

\* What the Device Initializer does when nothing fails, step by step.
InitializerSteps ==
  << <<"pci_write_long", 132, 262249>>,
     <<"ioperm", 78, 2>>, <<"ioperm", 104, 1>>, <<"ioperm", 108, 1>>,
     <<"outb", 78, 7>>, <<"outb", 79, 18>>,
     <<"outb", 78, 48>>, <<"outb", 79, 0>>,
     <<"outb", 78, 97>>, <<"outb", 79, 104>>,
     <<"outb", 78, 99>>, <<"outb", 79, 108>>,
     <<"outb", 78, 48>>, <<"outb", 79, 1>>,
     <<"outb", 108, 51>>, <<"outb", 104, 6>> >>

\* C12: whatever the process has done so far is a beginning of the
\* initializer's steps in their order (configuration write, the three port
\* permissions, the ten index / data writes, command 0x33, data 0x06), or
\* all of them followed by more, so that no 0x44 or 0x55 command comes before
\* the last of them; a refused permission leaves every port untouched, and
\* a process that has failed before the last step has done no later step.
C12_InitializerInOrder ==
  /\ IsPrefix(Steps, InitializerSteps) \/ IsPrefix(InitializerSteps, Steps)
  /\ failure = "PermissionDenied" => Len(Steps) <= 3
  /\ \A k \in 1..Len(Steps) :
       Steps[k] \in {Outb(CmdReadTemp, PortStatus), Outb(CmdSetFan, PortStatus)}
       => k > Len(InitializerSteps)

C12_FanCommandAfterInitializer ==
  /\ pc = "exited" /\ exit_code = 0
  /\ Steps = InitializerSteps \o <<Outb(CmdSetFan, PortStatus), Outb(60, PortData)>>

\* ---- C13

\* How many devices of the list are the 8086:9cc3 bridge.
Matches(devs) == Cardinality({i \in DOMAIN devs : IsTarget(devs[i])})

ConfigWrite == <<"pci_write_long", 132, 262249>>

\* C13: the first thing the process does to the hardware is the write of
\* 0x40069 at 0x84, done by initialize_pci and only when exactly one device
\* of the list matches; with exactly one match initialize_pci does it, unless
\* libpci itself fails; with none or several the process ends there with
\* exit code 1, having written no configuration register and touched no port.
C13_WriteIffOneMatch ==
  [][ /\ (log = <<>> /\ log' # <<>>)
         => (pc = "initialize" /\ Matches(devices) = 1 /\ log' = <<ConfigWrite>>)
      /\ (pc = "initialize" /\ Matches(devices) = 1)
         => (log' = <<ConfigWrite>> \/ (pc' = "exited" /\ failure' = "PciError"))
      /\ (pc = "initialize" /\ Matches(devices) # 1)
         => (pc' = "exited" /\ exit_code' = 1 /\ log' = <<>>) ]_vars

C13_TwoMatchesNothingWritten ==
  /\ pc = "exited" /\ exit_code = 1 /\ failure = "AmbiguousDevice"
  /\ Matches(devices) = 2
  /\ log = <<>>

\* ---- C14

\* s is a decimal integer as written: an optional sign and one digit or more.
RECURSIVE AllDigits(_, _)
AllDigits(s, i) == i > Len(s) \/ (IsDigit(s[i]) /\ AllDigits(s, i + 1))

IsInteger(s) ==
  IF s # <<>> /\ s[1] \in {"-", "+"}
  THEN Len(s) > 1 /\ AllDigits(s, 2)
  ELSE Len(s) > 0 /\ AllDigits(s, 1)

\* The argument of set-fan-speed is an integer in [0, 255].
ValidFanSpeed == IsInteger(argv[2]) /\ strtol(argv[2]) \in 0..255

\* C14, as stated: with set-fan-speed, the command 0x55 is written only
\* when the argument is an integer in [0, 255], and then its data byte is
\* that integer; with any other argument neither 0x55 nor a data byte after
\* it is written and the process does not end with exit code 0.
C14_OnlyIntegersInRange ==
  IsSetFanSpeed =>
    /\ \A k \in DOMAIN log :
         log[k] = Outb(CmdSetFan, PortStatus) => ValidFanSpeed
    /\ \A k \in DOMAIN log :
         (k > 1 /\ log[k] = Outb(fan_speed, PortData)
                /\ Outb(CmdSetFan, PortStatus) \in {log[j] : j \in 1..(k - 1)})
         => (ValidFanSpeed /\ fan_speed = strtol(argv[2]))
    /\ (pc = "exited" /\ exit_code = 0) => ValidFanSpeed

\* ---- C15

\* fan_manager has been called.
InManager == levels # <<>>

\* C15: once fan_manager is entered, the process never reaches the end of
\* main and exits in no way but a handshake timeout (exit code 2), and
\* from the head of the loop, at the first tick and after each completed one,
\* it completes a tick, unless a handshake wait times out.
C15_LoopNeverEnds ==
  /\ [](InManager => pc # "main_end")
  /\ [](InManager /\ pc = "exited" => TimedOut /\ exit_code = 2)
  /\ (pc \in {"fan_manager", "fan_manager_loop"}) ~> (pc = "fan_manager_sleep" \/ TimedOut)

C15_ThirdTickBegun ==
  /\ InManager
  /\ pc = "read_temperature" /\ last_sent # NoSpeed
  /\ fed = 2

\* ---- C16

IsCommand(e) == e[1] = "outb" /\ e[2] = PortStatus

BusyClear == <<"ready", 2, 0>>

InSecondBitWait ==
  pc \in {"wait_0x6C_second_bit_unset", "wait_0x6C_second_bit_unset_loop"}

\* C16: a command byte is written to port 0x6C right after a sample of
\* the port that showed bit 1 clear, and what follows it is the wait for bit 1
\* to be clear again: the next access after the write is a sample showing
\* bit 1 clear, before which no port 0x68 access and no other command write
\* is made; a first wait that times out leaves the command unwritten.
C16_CommandBetweenWaits ==
  /\ \A k \in DOMAIN log :
       IsCommand(log[k]) =>
         /\ k > 1 /\ log[k - 1] = BusyClear
         /\ k < Len(log) => log[k + 1] = BusyClear
  /\ pc = "set_0x6C_outb" => (log # <<>> /\ log[Len(log)] = BusyClear)
  /\ (log # <<>> /\ IsCommand(log[Len(log)])) =>
       (InSecondBitWait \/ (pc = "exited" /\ TimedOut))
  /\ (TimedOut /\ stack # <<>> /\ Head(stack) = "set_0x6C_outb") =>
       \A k \in DOMAIN log : log[k] # Outb(val, PortStatus)

C16_BusyAfterCommand ==
  /\ pc = "wait_0x6C_second_bit_unset_loop"
  /\ flag /\ samples = 3
  /\ log # <<>> /\ log[Len(log)] = Outb(CmdSetFan, PortStatus)

\* ---- C17

DataReady == <<"ready", 1, 1>>

\* What read_temperature does when it returns v.
ReadSteps(v) ==
  << BusyClear, <<"outb", 108, 68>>, BusyClear, <<"outb", 104, 0>>,
     DataReady, <<"inb", 104, v>> >>

Last(q, n) == SubSeq(q, Len(q) - n + 1, Len(q))

IsRead(e) == e[1] = "inb"

\* read_temperature has returned to main or to fan_manager, which has not
\* touched a port since.
TemperatureRead ==
  pc \in {"fan_manager_decide", "fan_manager_set"} \/ (pc = "main_end" /\ IsTemp)

\* C17: when read_temperature has returned, what it did is, in this
\* order, command 0x44 between its two waits, the write of 0x00 to port 0x68,
\* a sample showing bit 0 set and one read of port 0x68; the caller's temp is
\* the byte that read returned, and the level fan_manager decides on is the
\* rule's for that byte.  When the wait for bit 0 has timed out, port 0x68
\* has not been read, no fan command has been written and the level is as
\* it was.
C17_ReadAfterDataReady ==
  /\ TemperatureRead =>
       /\ Len(log) >= 6 /\ Last(log, 6) = ReadSteps(temp)
       /\ Len(SelectSeq(SubSeq(log, mark + 1, Len(log)), IsRead)) = 1
  /\ Decided => level = Rule(prev_level, levels, log[Len(log)][3])
  /\ (TimedOut /\ stack # <<>> /\ Head(stack) = "read_temperature_inb") =>
       /\ \A k \in DOMAIN log : ~IsRead(log[k])
       /\ \A k \in DOMAIN log : log[k] # Outb(CmdSetFan, PortStatus)
       /\ level = prev_level
       /\ temp = NoTemp

C17_HottestByteDecidedOn ==
  /\ Decided
  /\ log[Len(log)] = Inb(255, PortData)
  /\ prev_level = 1 /\ level = 2

\* ---- C18

InWaitLoop ==
  pc \in {"wait_0x6C_second_bit_unset_loop", "wait_0x6C_first_bit_set_loop"}

InWait ==
  InWaitLoop \/ pc \in {"wait_0x6C_second_bit_unset", "wait_0x6C_first_bit_set"}

\* C18: a wait that has been called comes to its end, whatever the
\* status port shows.  After a sample that showed the awaited state, the
\* first one included, its only step is the return, with no further sample;
\* it samples again, or times out, only after a sample that showed the other
\* state, and it times out only with its bounded number of samples made
\* and none of them having shown the awaited state.
C18_WaitsTerminate ==
  /\ [][ (InWaitLoop /\ ~flag) => (pc' = Head(stack) /\ log' = log) ]_vars
  /\ [][ (InWaitLoop /\ (samples' = samples + 1 \/ failure' = "HandshakeTimeout"))
          => flag ]_vars
  /\ [][ failure' = "HandshakeTimeout"
          => (samples = WaitLimit + 2 /\ samples' = samples /\ log' = <<>>) ]_vars
  /\ [](InWaitLoop => samples <= WaitLimit + 2)
  /\ [](pc = "returned" => Len(log) = 1 /\ log[1][1] = "ready")
  /\ InWait ~> ~InWait

C18_FirstSampleShowsIt ==
  /\ InWaitLoop
  /\ samples = 1 /\ ~flag
  /\ Len(log) = 1

\* ---- C19

IsDataWrite(e) == e[1] = "outb" /\ e[2] = PortData
IsDataRead(e) == e[1] = "inb" /\ e[2] = PortData

\* The command written as log[k] has been given its data byte, and for 0x44
\* its answer has been read.
Delivered(k) ==
  /\ k + 2 <= Len(log) /\ IsDataWrite(log[k + 2])
  /\ log[k][3] = CmdReadTemp => (k + 4 <= Len(log) /\ IsDataRead(log[k + 4]))

WellFormed(lv) == \A i \in DOMAIN lv : lv[i].leave <= lv[i].enter

\* The levels of k ticks that all sample t, from level lvl on: the level
\* before the first of them, then the level after each.
RECURSIVE Held(_, _, _, _, _)
Held(lvl, n, lv, t, k) ==
  IF k = 0 THEN <<lvl>>
  ELSE LET q == Held(lvl, n, lv, t, k - 1)
       IN  Append(q, NewLevel(q[Len(q)], n, lv, t, lv[1]))

\* From level lvl on, under the constant sample t, the level moves one way
\* only, is where it stays after n - 1 ticks at the latest, and never comes
\* back to a level it has just left.
Settles(lvl, n, lv, t) ==
  LET q == Held(lvl, n, lv, t, n + 1)
  IN  /\ \/ \A k \in 1..(n + 1) : q[k + 1] >= q[k]
         \/ \A k \in 1..(n + 1) : q[k + 1] <= q[k]
      /\ q[n + 1] = q[n] /\ q[n + 2] = q[n]
      /\ \A k \in 1..n : q[k + 1] = q[k] => q[k + 2] = q[k]
      /\ \A k \in 1..n : q[k + 2] = q[k] => q[k + 1] = q[k]

\* C20: on a ladder whose levels all have leave <= enter, if the
\* temperature stays what the tick just decided on has sampled, the level
\* settles as above, this tick's decision being the first move; so it does
\* on the default ladder, from each of its levels.
C20_SettlesAtConstantTemperature ==
  /\ (Decided /\ WellFormed(levels)) =>
       /\ Held(prev_level, num_levels, levels, temp, 1) = <<prev_level, level>>
       /\ Settles(prev_level, num_levels, levels, temp)
  /\ pc = "fan_manager" =>
       /\ WellFormed(default_levels)
       /\ \A lvl \in 0..(num_default_levels - 1) : \A t \in DataSet :
            Settles(lvl, num_default_levels, default_levels, t)

C20_TwoTicksToTheTop ==
  /\ Decided
  /\ WellFormed(levels) /\ num_levels = 3
  /\ Held(prev_level, num_levels, levels, temp, 3) = <<0, 1, 2, 2>>

====
